---- MODULE Spec2Model ----
(***************************************************************************)
(* Model of runway_nodes.py: RunwayVideoGenerator.generate_video and its   *)
(* poll loop poll_status.  One call of generate_video is followed from its *)
(* entry to its return or raise.  The remote API and the requests library  *)
(* are the environment: every POST / GET draws its reply and its latency   *)
(* from small sets.  The wall clock (time.time()) is an integer number of  *)
(* seconds; it advances by the latency of a request and by time.sleep.     *)
(***************************************************************************)
EXTENDS Integers, Sequences, FiniteSets, TLC

\* Largest max_wait tried (the node declares 10..300; poll_status takes any int).
MaxWaitBound == 25
\* Largest latency of one HTTP request, in seconds.
MaxLatency == 4
\* time.sleep(10), lines 79 and 84.
PollInterval == 10

WaitChoices == (0 - 1) .. MaxWaitBound
Latencies == {0, MaxLatency}
Frames == {"frameA", "frameB"}
TaskIds == {"task1", "task2"}
Url1 == "https://x/video.mp4"
Url2 == "https://x/other.mp4"

(***************************************************************************)
(* Exceptions.  response is the value of the exception's `response`        *)
(* attribute: "absent" (no such attribute), "None", or "Response".         *)
(* requests.exceptions.RequestException.__init__ always sets               *)
(* self.response, to None when no response was received.                   *)
(***************************************************************************)
Exc(type, msg, isReq, response, n) ==
    [type |-> type, msg |-> msg, isRequestException |-> isReq,
     response |-> response, attempts |-> n]

NoExc == Exc("none", "", FALSE, "absent", 0)
\* connection failure: a RequestException without a response object
ConnectionError == Exc("ConnectionError", "connection failed", TRUE, "None", 0)
\* response.raise_for_status() on a 4xx/5xx response
HTTPError == Exc("HTTPError", "HTTP error status", TRUE, "Response", 0)
\* response.json() on an undecodable body, requests >= 2.27
JSONDecodeError == Exc("JSONDecodeError", "bad json", TRUE, "None", 0)
\* response.json() on an undecodable body, older requests (json / simplejson)
ValueError == Exc("ValueError", "bad json", FALSE, "absent", 0)
\* e.response.text with e.response None
AttributeError == Exc("AttributeError", "NoneType has no attribute text", FALSE, "absent", 0)

RequestErrors == {ConnectionError, HTTPError, JSONDecodeError, ValueError}

(***************************************************************************)
(* Replies of GET /v1/tasks/{id}.  A decoded body has an optional status   *)
(* ("absent" when the key is missing) and an optional output list.         *)
(***************************************************************************)
Statuses == {"RUNNING", "SUCCEEDED", "FAILED", "CANCELED", "absent"}
Outputs == {<< >>, <<Url1>>, <<Url2, Url1>>}

StatusBodies ==
    {b \in [status : Statuses, hasOutput : BOOLEAN, output : Outputs] :
        /\ (~b.hasOutput => b.output = << >>)
        /\ (b.hasOutput => b.status = "SUCCEEDED")}

NoBody == [status |-> "absent", hasOutput |-> FALSE, output |-> << >>]

StatusReplies ==
    {[kind |-> "ok", body |-> b, exc |-> NoExc] : b \in StatusBodies}
    \cup {[kind |-> "exc", body |-> NoBody, exc |-> e] : e \in RequestErrors}

(***************************************************************************)
(* Replies of POST /v1/image_to_video.  id is "" when the body has no      *)
(* usable id (missing, null or empty: all falsy for `not task_id`).        *)
(***************************************************************************)
SubmitReplies ==
    {[kind |-> "ok", id |-> i, exc |-> NoExc] : i \in TaskIds \cup {""}}
    \cup {[kind |-> "exc", id |-> "", exc |-> e] : e \in RequestErrors}

VARIABLES
    pc,          \* "start", "polling" or "done"
    trigger, max_wait, first_frame, last_frame,   \* arguments of generate_video
    encoded,     \* the frames encode_image was called on, in order
    task_id,     \* generate_video's local task_id
    clock,       \* time.time()
    start_time, end_time, attempts,               \* locals of poll_status
    posts,       \* submission POSTs issued: the reply of each
    polls,       \* status GETs issued: target, reply, times and sleep of each
    pollOutcome, \* how poll_status ended
    outcome      \* how generate_video ended

\* RunwayVideoPreview.preview_video: one call, from entry to return or raise
VARIABLES
    pv_pc,       \* "idle", "start", "fetched" or "done"
    video_url, download, filename,                \* arguments of preview_video
    pv_response, \* the reply of requests.get(video_url)
    written,     \* how open / write went: "none", "ok", "open fails", "write fails"
    fs0, fs,     \* the files under output/ at entry and now: path -> content
    io,          \* the I/O operations done, in order: "GET", "OPEN", "WRITE"
    pv_result    \* how preview_video ended

pvars == <<pv_pc, video_url, download, filename, pv_response, written, fs0, fs, io,
           pv_result>>

gvars == <<pc, trigger, max_wait, first_frame, last_frame, encoded, task_id, clock,
           start_time, end_time, attempts, posts, polls, pollOutcome, outcome>>

vars == <<gvars, pvars>>

Running == [kind |-> "running", video_url |-> "", generation_id |-> "",
            preview |-> "", exc |-> NoExc]
Return(url, id, img) == [kind |-> "return", video_url |-> url,
                         generation_id |-> id, preview |-> img, exc |-> NoExc]
Raise(e) == [kind |-> "raise", video_url |-> "", generation_id |-> "",
             preview |-> "", exc |-> e]

(***************************************************************************)
(* Values of preview_video.  A result has a shape: the 1-tuple (x,) or the *)
(* bare string x; `return ("")` returns the bare string.                   *)
(***************************************************************************)
PreviewUrls == {"", Url1, Url2}
Filenames == {"runway_video.mp4", "clip.mp4"}
Contents == {"videoA", "videoB"}
Missing == "missing"
OldFile == "old"
Truncated == "truncated"

\* line 166: os.path.join("output", filename)
SavePath(f) == IF f = "runway_video.mp4" THEN "output/runway_video.mp4"
               ELSE "output/clip.mp4"
Paths == {SavePath(f) : f \in Filenames}

PreviewReplies ==
    {[kind |-> "ok", content |-> c, exc |-> NoExc] : c \in Contents}
    \cup {[kind |-> "exc", content |-> "", exc |-> e] : e \in {ConnectionError, HTTPError}}
NoReply == [kind |-> "none", content |-> "", exc |-> NoExc]

PvRunning == [kind |-> "running", shape |-> "none", value |-> ""]
Tuple1(x) == [kind |-> "return", shape |-> "tuple", value |-> x]
BareStr(x) == [kind |-> "return", shape |-> "str", value |-> x]
PvRaise(e) == [kind |-> "raise", shape |-> "none", value |-> e.type]

\* no preview_video call in progress
PreviewIdle ==
    /\ pv_pc = "idle"
    /\ video_url = ""
    /\ download = FALSE
    /\ filename = "runway_video.mp4"
    /\ pv_response = NoReply
    /\ written = "none"
    /\ fs0 = [p \in Paths |-> Missing]
    /\ fs = fs0
    /\ io = << >>
    /\ pv_result = PvRunning

Init ==
    /\ pc = "start"
    /\ trigger \in BOOLEAN
    /\ max_wait \in WaitChoices
    /\ first_frame \in Frames
    /\ last_frame \in Frames \ {first_frame}
    /\ encoded = << >>
    /\ task_id = ""
    /\ clock = 0
    /\ start_time = 0
    /\ end_time = 0
    /\ attempts = 0
    /\ posts = << >>
    /\ polls = << >>
    /\ pollOutcome = Running
    /\ outcome = Running
    /\ PreviewIdle

\* a skip that hands back the other frame
SkipResultLastFrame(first, last) == Return("", "", last)

\* generate_video, lines 89-90: the value returned when trigger is false
SkipResult(first, last) == Return("", "", first)

\* a handler that catches every exception, not only RequestException
GenerateExceptAny(e) == Exc("RuntimeError", "Runway API error", FALSE, "absent", 0)

\* generate_video, lines 140-142: what an exception raised inside the try
\* block leaves generate_video as
GenerateExcept(e) ==
    IF e.isRequestException
    THEN IF e.response = "None"
         THEN AttributeError
         ELSE Exc("RuntimeError", "Runway API error", FALSE, "absent", 0)
    ELSE e

\* a submission that never checks the id
HasTaskIdUnchecked(id) == TRUE

\* generate_video, lines 131-133
HasTaskId(id) == id # ""

\* generate_video with trigger false
GenerateSkip ==
    /\ pc = "start"
    /\ ~trigger
    /\ outcome' = SkipResult(first_frame, last_frame)
    /\ pc' = "done"
    /\ UNCHANGED <<trigger, max_wait, first_frame, last_frame, encoded, task_id,
                   clock, start_time, end_time, attempts, posts, polls, pollOutcome>>
    /\ UNCHANGED pvars

\* generate_video with trigger true, up to the call of poll_status
GenerateSubmit ==
    /\ pc = "start"
    /\ trigger
    /\ encoded' = <<first_frame, last_frame>>
    /\ \E reply \in SubmitReplies, lat \in Latencies :
        /\ posts' = Append(posts, reply)
        /\ clock' = clock + lat
        /\ IF reply.kind = "ok" /\ HasTaskId(reply.id)
           THEN /\ task_id' = reply.id
                /\ start_time' = clock'
                /\ end_time' = clock' + max_wait
                /\ attempts' = 0
                /\ pc' = "polling"
                /\ outcome' = outcome
           ELSE /\ outcome' = IF reply.kind = "ok"
                              THEN Raise(GenerateExcept(
                                     Exc("RuntimeError", "No task ID in response",
                                         FALSE, "absent", 0)))
                              ELSE Raise(GenerateExcept(reply.exc))
                /\ pc' = "done"
                /\ UNCHANGED <<task_id, start_time, end_time, attempts>>
    /\ UNCHANGED <<trigger, max_wait, first_frame, last_frame, polls, pollOutcome>>
    /\ UNCHANGED pvars

(***************************************************************************)
(* poll_status.  One loop iteration is one step: the loop test, the GET,   *)
(* the handling of its reply, and the sleep that ends the iteration.       *)
(***************************************************************************)
Step(kind, url, e, secs) == [kind |-> kind, video_url |-> url, exc |-> e, secs |-> secs]

\* a loop test that still polls at the deadline itself
LoopCondInclusive(now, end) == now <= end

\* line 57: the loop test
LoopCond(now, end) == now < end

\* a status GET that names a fixed task
PollTargetFixed(id) == "task1"

\* line 62: the task the status GET names
PollTarget(id) == id

\* line 69: result.get("status", "UNKNOWN")
Status(result) == IF result.status = "absent" THEN "UNKNOWN" ELSE result.status

\* an output test that wants more than one entry
HasVideoSeveral(result) == result.hasOutput /\ Len(result.output) > 1

\* line 73: "output" in result and len(result["output"]) > 0
HasVideo(result) == result.hasOutput /\ Len(result.output) > 0

\* line 76: status in ["FAILED", "CANCELED"]
IsFailure(status) == status \in {"FAILED", "CANCELED"}

\* line 77
TaskFailed == Exc("RuntimeError", "Task failed", FALSE, "absent", 0)

\* a timeout that counts one attempt too many
TimeoutErrorOffByOne(n) == Exc("RuntimeError", "Timeout", FALSE, "absent", n + 1)

\* line 86
TimeoutError(n) == Exc("RuntimeError", "Timeout", FALSE, "absent", n)

\* line 79: the sleep that ends an iteration without exception
TrySleep == PollInterval

\* a longer back-off after an error
ExceptSleepDouble == 2 * PollInterval

\* line 84: the sleep that ends an iteration whose exception was handled
ExceptSleep == PollInterval

\* a try block that returns on SUCCEEDED without looking at the output list
TryBodyNoOutputTest(reply) ==
    IF reply.kind = "exc"
    THEN Step("raise", "", reply.exc, 0)
    ELSE IF Status(reply.body) = "SUCCEEDED"
         THEN Step("return",
                   IF reply.body.output = << >> THEN "" ELSE Head(reply.body.output),
                   NoExc, 0)
         ELSE IF IsFailure(Status(reply.body))
              THEN Step("raise", "", TaskFailed, 0)
              ELSE Step("sleep", "", NoExc, TrySleep)

\* lines 59-79: the try block, given the reply of the GET
TryBody(reply) ==
    IF reply.kind = "exc"
    THEN Step("raise", "", reply.exc, 0)
    ELSE IF Status(reply.body) = "SUCCEEDED"
         THEN IF HasVideo(reply.body)
              THEN Step("return", Head(reply.body.output), NoExc, 0)
              ELSE Step("sleep", "", NoExc, TrySleep)
         ELSE IF IsFailure(Status(reply.body))
              THEN Step("raise", "", TaskFailed, 0)
              ELSE Step("sleep", "", NoExc, TrySleep)

\* lines 80-84: the handler of every Exception raised in the try block
PollExcept(e) ==
    IF e.response # "absent" /\ e.response = "None"
    THEN Step("raise", "", AttributeError, 0)
    ELSE Step("sleep", "", NoExc, ExceptSleep)

\* lines 59-84: one iteration's body
LoopBody(reply) ==
    LET r == TryBody(reply)
    IN  IF r.kind = "raise" THEN PollExcept(r.exc) ELSE r

\* a return with url and id in each other's place
GenerateResultSwapped(url, id, first, last) == Return(id, url, first)

\* generate_video, lines 135-138: the value returned after poll_status returned
GenerateResult(url, id, first, last) == Return(url, id, first)

\* one iteration of the while loop of poll_status
PollIteration ==
    /\ pc = "polling"
    /\ LoopCond(clock, end_time)
    /\ \E reply \in StatusReplies, lat \in Latencies :
        LET r == LoopBody(reply)
        IN  /\ attempts' = attempts + 1
            /\ polls' = Append(polls, [task_id |-> PollTarget(task_id),
                                       at |-> clock, lat |-> lat,
                                       reply |-> reply, step |-> r.kind,
                                       slept |-> r.secs])
            /\ clock' = clock + lat + r.secs
            /\ IF r.kind = "sleep"
               THEN UNCHANGED <<pc, pollOutcome, outcome>>
               ELSE /\ pc' = "done"
                    /\ pollOutcome' = IF r.kind = "return"
                                      THEN Return(r.video_url, "", "")
                                      ELSE Raise(r.exc)
                    /\ outcome' = IF r.kind = "return"
                                  THEN GenerateResult(r.video_url, task_id,
                                                      first_frame, last_frame)
                                  ELSE Raise(GenerateExcept(r.exc))
    /\ UNCHANGED <<trigger, max_wait, first_frame, last_frame, encoded, task_id,
                   start_time, end_time, posts>>
    /\ UNCHANGED pvars

\* the loop test fails: line 86
PollTimeout ==
    /\ pc = "polling"
    /\ ~LoopCond(clock, end_time)
    /\ pollOutcome' = Raise(TimeoutError(attempts))
    /\ outcome' = Raise(GenerateExcept(TimeoutError(attempts)))
    /\ pc' = "done"
    /\ UNCHANGED <<trigger, max_wait, first_frame, last_frame, encoded, task_id,
                   clock, start_time, end_time, attempts, posts, polls>>
    /\ UNCHANGED pvars

Next == GenerateSkip \/ GenerateSubmit \/ PollIteration \/ PollTimeout

Spec == Init /\ [][Next]_vars

(***************************************************************************)
(* preview_video.  The GET is one step, open + write the next.             *)
(***************************************************************************)
\* no generate_video call in progress
GenerateIdle ==
    /\ pc = "idle"
    /\ trigger = FALSE
    /\ max_wait = 0
    /\ first_frame = "frameA"
    /\ last_frame = "frameB"
    /\ encoded = << >>
    /\ task_id = ""
    /\ clock = 0
    /\ start_time = 0
    /\ end_time = 0
    /\ attempts = 0
    /\ posts = << >>
    /\ polls = << >>
    /\ pollOutcome = Running
    /\ outcome = Running

PreviewInit ==
    /\ GenerateIdle
    /\ pv_pc = "start"
    /\ video_url \in PreviewUrls
    /\ download \in BOOLEAN
    /\ filename \in Filenames
    /\ pv_response = NoReply
    /\ written = "none"
    /\ fs0 \in [Paths -> {Missing, OldFile}]
    /\ fs = fs0
    /\ io = << >>
    /\ pv_result = PvRunning

\* lines 161-162: return ("")
EmptyResult(url) == BareStr("")

\* line 177: return (video_url,)
PassResult(url) == Tuple1(url)

\* a handler that hands the exception on
PreviewExceptReraise(url, path, e) == PvRaise(e)

\* a handler that answers with the local path
PreviewExceptPath(url, path, e) == Tuple1(path)

\* lines 174-176: the handler of every Exception of the download
PreviewExcept(url, path, e) == Tuple1(url)

\* line 173: return (save_path,)
SavedResult(url, path) == Tuple1(path)

\* open(save_path, "wb") that failed (FileNotFoundError, PermissionError)
OpenError == Exc("OSError", "cannot open", FALSE, "absent", 0)
\* f.write(pv_response.content) that failed after the file was opened
WriteError == Exc("OSError", "cannot write", FALSE, "absent", 0)

\* lines 161-162: empty video_url
PreviewEmpty ==
    /\ pv_pc = "start"
    /\ video_url = ""
    /\ pv_result' = EmptyResult(video_url)
    /\ pv_pc' = "done"
    /\ UNCHANGED <<video_url, download, filename, pv_response, written, fs0, fs, io>>
    /\ UNCHANGED gvars

\* lines 164, 177: download false
PreviewPass ==
    /\ pv_pc = "start"
    /\ video_url # ""
    /\ ~download
    /\ pv_result' = PassResult(video_url)
    /\ pv_pc' = "done"
    /\ UNCHANGED <<video_url, download, filename, pv_response, written, fs0, fs, io>>
    /\ UNCHANGED gvars

\* lines 164-168: the GET and raise_for_status
PreviewGet ==
    /\ pv_pc = "start"
    /\ video_url # ""
    /\ download
    /\ \E reply \in PreviewReplies :
        /\ pv_response' = reply
        /\ io' = Append(io, "GET")
        /\ IF reply.kind = "ok"
           THEN /\ pv_pc' = "fetched"
                /\ pv_result' = pv_result
           ELSE /\ pv_pc' = "done"
                /\ pv_result' = PreviewExcept(video_url, SavePath(filename), reply.exc)
    /\ UNCHANGED <<video_url, download, filename, written, fs0, fs>>
    /\ UNCHANGED gvars

\* lines 170-176: open, write, return
PreviewWrite ==
    /\ pv_pc = "fetched"
    /\ \E w \in {"ok", "open fails", "write fails"} :
        LET path == SavePath(filename)
        IN  /\ written' = w
            /\ io' = IF w = "open fails" THEN Append(io, "OPEN")
                     ELSE io \o <<"OPEN", "WRITE">>
            /\ fs' = IF w = "ok" THEN [fs EXCEPT ![path] = pv_response.content]
                     ELSE IF w = "write fails" THEN [fs EXCEPT ![path] = Truncated]
                     ELSE fs
            /\ pv_result' = IF w = "ok" THEN SavedResult(video_url, path)
                         ELSE IF w = "write fails"
                              THEN PreviewExcept(video_url, path, WriteError)
                              ELSE PreviewExcept(video_url, path, OpenError)
    /\ pv_pc' = "done"
    /\ UNCHANGED <<video_url, download, filename, pv_response, fs0>>
    /\ UNCHANGED gvars

PreviewNext == PreviewEmpty \/ PreviewPass \/ PreviewGet \/ PreviewWrite

PreviewSpec == PreviewInit /\ [][PreviewNext]_vars

(***************************************************************************)
(* Properties.                                                             *)
(***************************************************************************)
PollEnded == pollOutcome.kind # "running"
TimedOut == /\ pollOutcome.kind = "raise"
            /\ pollOutcome.exc.type = "RuntimeError"
            /\ pollOutcome.exc.msg = "Timeout"
IsFailureReply(p) == p.reply.kind = "ok" /\ p.reply.body.status \in {"FAILED", "CANCELED"}
IsSuccessReply(p) == /\ p.reply.kind = "ok"
                     /\ p.reply.body.status = "SUCCEEDED"
                     /\ p.reply.body.hasOutput
                     /\ p.reply.body.output # << >>
IsOtherReply(p) == p.reply.kind = "ok" /\ ~IsFailureReply(p) /\ ~IsSuccessReply(p)

\* C1: a status reply FAILED or CANCELED, at any position of the reply
\* sequence, is the last GET of poll_status, is followed by no sleep, and
\* poll_status ends with the error "Task failed".
C1_FailureIsFatal ==
    \A i \in 1..Len(polls) :
        IsFailureReply(polls[i])
        => /\ i = Len(polls)
           /\ polls[i].slept = 0
           /\ pollOutcome.kind = "raise"
           /\ pollOutcome.exc.msg = "Task failed"

\* C2: every exception of a status GET (connection failure, HTTP error
\* status, undecodable body) is swallowed: the iteration ends with the
\* 10-second sleep and poll_status goes on to the next loop test, where it
\* polls again or times out.
C2_PollErrorsSwallowed ==
    \A i \in 1..Len(polls) :
        polls[i].reply.kind = "exc"
        => /\ polls[i].step = "sleep"
           /\ polls[i].slept = PollInterval
           /\ (i = Len(polls) => (pc = "polling" \/ TimedOut))

\* C3: with trigger false generate_video returns ("", "", first_frame), the
\* frame being the one passed in, and has issued no POST and no GET, encoded
\* nothing and let no time pass.
C3_SkipDoesNothing ==
    ~trigger =>
        /\ posts = << >> /\ polls = << >> /\ encoded = << >> /\ clock = 0
        /\ pc = "done" => outcome = Return("", "", first_frame)
        /\ pc # "done" => (pc = "start" /\ outcome = Running)

C3_Witness == ~trigger /\ pc = "done" /\ outcome.preview = first_frame

ZeroLatency == \A i \in 1..Len(polls) : polls[i].lat = 0

\* C4: a SUCCEEDED reply with a non-empty output list is the last GET: after
\* k other replies it is GET number k+1, poll_status returns the first output
\* entry and neither sleeps nor polls after it; and after k non-terminal
\* replies with 10*k < max_wait (no latency) the loop test still holds, so GET
\* number k+1 is issued.
C4_SucceededReturnsFirstOutput ==
    /\ \A i \in 1..Len(polls) :
          IsSuccessReply(polls[i])
          => /\ i = Len(polls)
             /\ attempts = i
             /\ polls[i].slept = 0
             /\ pc = "done"
             /\ pollOutcome.kind = "return"
             /\ pollOutcome.video_url = polls[i].reply.body.output[1]
             /\ outcome.kind = "return"
             /\ outcome.video_url = polls[i].reply.body.output[1]
    /\ ( /\ pc # "start" /\ task_id # ""
         /\ \A i \in 1..Len(polls) : IsOtherReply(polls[i])
         /\ ZeroLatency
         /\ PollInterval * Len(polls) < max_wait )
       => (pc = "polling" /\ LoopCond(clock, end_time))

C4_Witness ==
    /\ Len(polls) = 3
    /\ polls[1].reply.body.status = "RUNNING"
    /\ polls[2].reply.body.status = "RUNNING"
    /\ polls[3].reply.body.status = "SUCCEEDED"
    /\ polls[3].reply.body.output = <<Url1>>
    /\ pollOutcome.kind = "return"
    /\ pollOutcome.video_url = Url1
    /\ attempts = 3

\* C5: a 2xx submission reply without a task id makes generate_video raise
\* "No task ID in response" with no status GET issued.
C5_NoTaskIdIsFatal ==
    (Len(posts) >= 1 /\ posts[1].kind = "ok" /\ posts[1].id = "")
    => /\ pc = "done"
       /\ outcome.kind = "raise"
       /\ outcome.exc.type = "RuntimeError"
       /\ outcome.exc.msg = "No task ID in response"
       /\ Len(posts) = 1
       /\ polls = << >>

C5_Witness ==
    /\ Len(posts) = 1 /\ posts[1].kind = "ok" /\ posts[1].id = ""
    /\ outcome.kind = "raise"

\* C6: a failed submission POST (HTTP error status, or a connection failure
\* without a response) makes generate_video raise RuntimeError "Runway API
\* error", with one POST and no status GET issued.
C6_SubmitFailureIsApiError ==
    (Len(posts) >= 1 /\ posts[1].kind = "exc"
        /\ posts[1].exc.type \in {"ConnectionError", "HTTPError"})
    => /\ pc = "done"
       /\ outcome.kind = "raise"
       /\ outcome.exc.type = "RuntimeError"
       /\ outcome.exc.msg = "Runway API error"
       /\ Len(posts) = 1
       /\ polls = << >>

C8_PollEndsByDeadlinePlusInterval ==
    /\ \A i \in 1..Len(polls) : polls[i].at < start_time + max_wait
    /\ (pc # "start" /\ task_id # "" /\ ZeroLatency /\ pollOutcome.kind # "return")
       => clock <= start_time + max_wait + PollInterval

C8_Witness ==
    /\ TimedOut
    /\ ZeroLatency
    /\ Len(polls) = 2
    /\ clock > end_time
    /\ polls[1].reply.kind = "exc"
    /\ polls[2].reply.kind = "ok"

\* C9: a generate_video call with trigger true issues exactly one POST, and
\* every status GET names the task id that POST returned.
C9_OnePostOneTask ==
    (trigger /\ pc # "start")
    => /\ Len(posts) = 1
       /\ \A i \in 1..Len(polls) :
            /\ posts[1].kind = "ok"
            /\ polls[i].task_id = posts[1].id

C9_Witness ==
    /\ Len(posts) = 1 /\ posts[1].id = "task2"
    /\ Len(polls) = 3
    /\ \A i \in 1..3 : polls[i].task_id = "task2"

C13_FixedInterval ==
    \A i \in 1..Len(polls) :
        i < Len(polls)
        => /\ polls[i].step = "sleep"
           /\ polls[i].slept = PollInterval
           /\ polls[i + 1].at = polls[i].at + polls[i].lat + PollInterval

C13_Witness ==
    /\ Len(polls) = 3
    /\ polls[1].reply.kind = "exc"
    /\ polls[2].reply.kind = "ok"
    /\ polls[2].reply.body.status = "RUNNING"
    /\ polls[2].at - polls[1].at = PollInterval
    /\ polls[3].at - polls[2].at = PollInterval

PollStarted == pc # "start" /\ task_id # ""
MaxPolls == IF max_wait <= 0 THEN 0
            ELSE (max_wait + PollInterval - 1) \div PollInterval

\* C15: with zero request latency poll_status issues at most
\* ceil(max_wait / 10) status GETs, and at least one before it ends when
\* max_wait > 0; with max_wait <= 0 it issues none and ends with the timeout
\* error reporting 0 attempts.
C15_PollCount ==
    PollStarted
    => /\ ZeroLatency => Len(polls) <= MaxPolls
       /\ (max_wait > 0 /\ pc = "done") => Len(polls) >= 1
       /\ max_wait <= 0
          => /\ polls = << >>
             /\ pc = "done"
                => /\ TimedOut
                   /\ pollOutcome.exc.attempts = 0
                   /\ outcome = pollOutcome

C15_Witness ==
    /\ PollStarted /\ ZeroLatency
    /\ max_wait = 2 * PollInterval + 1
    /\ Len(polls) = 3
    /\ TimedOut

C15_WitnessNone ==
    PollStarted /\ max_wait = 0 /\ TimedOut /\ pollOutcome.exc.attempts = 0

DownloadFailed ==
    pv_response.kind = "exc" \/ written \in {"open fails", "write fails"}
Opened == \E i \in 1..Len(io) : io[i] = "OPEN"

\* C11: preview_video with download true never raises, and when the GET
\* fails (no response, error status) or opening or writing the file fails it
\* returns (video_url,) with the url it was given.
C11_DownloadNeverRaises ==
    (pv_pc # "idle" /\ download)
    => /\ pv_result.kind # "raise"
       /\ DownloadFailed => (pv_pc = "done" /\ pv_result = Tuple1(video_url))

C11_Witness ==
    /\ download /\ video_url = Url2
    /\ written = "write fails"
    /\ pv_result = Tuple1(Url2)

\* C12: preview_video with download false, or with an empty video_url,
\* returns the 1-tuple (video_url,), the shape of every other branch, and does
\* no GET and touches no file.
C12_NoDownloadPassesThrough ==
    (pv_pc = "done" /\ (~download \/ video_url = ""))
    => /\ pv_result = Tuple1(video_url)
       /\ io = << >>
       /\ fs = fs0

\* C16: with download true and a non-empty url the file is opened only after
\* a GET that was answered with success; a failed GET leaves every file as it
\* was; and the local path is returned only after a successful GET and a
\* complete write, the file then holding the content fetched.
C16_FileOnlyAfterGet ==
    (pv_pc # "idle" /\ download /\ video_url # "")
    => /\ Opened => (io[1] = "GET" /\ io[2] = "OPEN" /\ pv_response.kind = "ok")
       /\ pv_response.kind = "exc" => (fs = fs0 /\ ~Opened)
       /\ fs # fs0 => Opened
       /\ (pv_result.kind = "return" /\ pv_result.value = SavePath(filename))
          => /\ pv_response.kind = "ok"
             /\ written = "ok"
             /\ io = <<"GET", "OPEN", "WRITE">>
             /\ fs[SavePath(filename)] = pv_response.content

C16_Witness ==
    /\ download /\ video_url = Url1
    /\ written = "ok"
    /\ pv_result = Tuple1(SavePath(filename))
    /\ fs0[SavePath(filename)] = OldFile
    /\ fs[SavePath(filename)] = "videoB"
====
